---- MODULE Spec2Model ----
(***************************************************************************)
(* Model of proyecto2.py: the CFG -> CNF converter (class CFGtoCNF) and    *)
(* the CYK recognizer / tree builder (class CYKParser).                    *)
(*                                                                         *)
(* Python values are modelled as follows.                                  *)
(*   - a str that is later split() is a sequence of pieces, a piece being  *)
(*     either a word or a run of whitespace (SPACE);                       *)
(*   - a dict is a sequence of [key, val] records in insertion order       *)
(*     (Python dicts iterate in insertion order);                          *)
(*   - a list is a sequence; a set is a set, and a loop over a set takes   *)
(*     an order that the action chooses (hash order is not fixed by the    *)
(*     code).                                                              *)
(***************************************************************************)
EXTENDS Integers, Sequences, FiniteSets, TLC

VARIABLES
    original_grammar,  \* CFGtoCNF.original_grammar: [start, rules]
    grammar,           \* CFGtoCNF.grammar
    start_symbol,      \* CFGtoCNF.start_symbol
    new_var_counter,   \* CFGtoCNF.new_var_counter
    pc,                \* position of the program
    results,           \* the values convert() has returned (as returned), oldest first
    introduced,        \* identifiers the current convert() run has introduced, in order
    err,               \* the exception that ended the last call, or NoError
    parser,            \* the CYKParser instance: [start_symbol, grammar, reverse_grammar], or None
    words,             \* parse(): words
    table,             \* parse(): table
    backpointer,       \* parse(): backpointer
    parse_result,      \* what parse() returned: [accepts, parse_data]
    tree,              \* what build_parse_tree() returned
    fill,              \* parse(): the position of the loops that fill the table
    fill_log           \* parse(): the steps of the loops so far, one record a step

vars == <<original_grammar, grammar, start_symbol, new_var_counter, pc, results,
          introduced, err, parser, words, table, backpointer, parse_result, tree,
          fill, fill_log>>

\* Python's None
None == [none |-> TRUE]
\* no exception
NoError == "NoError"
SPACE == " "

(***************************************************************************)
(* Bounds of the model.                                                    *)
(***************************************************************************)
\* productions of an input grammar (drawn from RulePool)
MaxRules == 3
\* words of an input sentence
MaxWords == 3
\* calls of convert() on the one CFGtoCNF instance
MaxRuns == 2

(***************************************************************************)
(* Python built-ins.                                                       *)
(***************************************************************************)
\* str.split(): the words of the string, whitespace runs dropped
Split(s) == SelectSeq(s, LAMBDA p : p # SPACE)

\* the all-lowercase words that occur in the model's inputs
LowercaseWords ==
    {"a", "b", "n", "the", "he", "she", "cooks", "drinks", "eats", "cuts",
     "in", "with", "cat", "dog", "beer", "cake", "juice", "meat", "soup",
     "fork", "knife", "oven", "spoon", "quickly"}

\* str.islower(): some cased character, and every cased character lowercase
IsLower(s) == s \in LowercaseWords

\* str.lower()
Lower(s) ==
    CASE s = "A" -> "a"
      [] s = "B" -> "b"
      [] s = "S" -> "s"
      [] OTHER -> s

\* dict: keys in insertion order
Keys(d) == [i \in 1..Len(d) |-> d[i].key]
KeySet(d) == {d[i].key : i \in 1..Len(d)}
\* k in d
Has(d, k) == k \in KeySet(d)
IndexOf(d, k) == CHOOSE i \in 1..Len(d) : d[i].key = k
\* d[k]
Get(d, k) == d[IndexOf(d, k)].val
\* d[k] = v : an existing key keeps its place
SetItem(d, k, v) ==
    IF Has(d, k) THEN [d EXCEPT ![IndexOf(d, k)].val = v]
    ELSE Append(d, [key |-> k, val |-> v])
\* defaultdict(list): d[k].append(x)
AppendItem(d, k, x) ==
    IF Has(d, k) THEN [d EXCEPT ![IndexOf(d, k)].val = Append(@, x)]
    ELSE Append(d, [key |-> k, val |-> <<x>>])

\* TLC evaluates an operator's arguments when they are first used: a loop
\* written as a recursive operator evaluates the value it carries at every
\* round (CASE Evaluated(v) -> ...) rather than at the end of the loop.
Evaluated(v) == v = v

\* x in list
InSeq(x, s) == \E i \in 1..Len(s) : s[i] = x

\* the orders in which a loop can visit the set S
SeqPerms(S) ==
    {s \in [1..Cardinality(S) -> S] : \A x \in S : \E i \in 1..Cardinality(S) : s[i] = x}

(***************************************************************************)
(* CFGtoCNF                                                                *)
(***************************************************************************)
\* f"X{n}"
XName(n) == "X" \o ToString(n)

\* get_new_variable: the counter after the call and the name returned
get_new_variable(ctr) == [ctr |-> ctr + 1, name |-> XName(ctr + 1)]

RECURSIVE CopyRules(_, _, _)
\* for var, productions in original_grammar['rules'].items():
\*     grammar[var] = [prod.split() for prod in productions]
CopyRules(g, rules, i) ==
    IF i > Len(rules) THEN g
    ELSE LET next == SetItem(g, rules[i].key,
                             [j \in 1..Len(rules[i].val) |-> Split(rules[i].val[j])])
         IN CASE Evaluated(next) -> CopyRules(next, rules, i + 1)

\* eliminate_start_symbol: the grammar it leaves in self.grammar
StartIsolated(g, start, rules) ==
    CopyRules(SetItem(g, "S0", << <<start>> >>), rules, 1)

\* all(symbol in nullable for symbol in prod)
AllNullable(prod, nullable) == \A i \in 1..Len(prod) : prod[i] \in nullable

RECURSIVE NullableSet(_, _)
\* eliminate_epsilon_productions: the set the while loop ends with
NullableSet(g, nullable) ==
    LET more == {v \in KeySet(g) \ nullable :
                    \E i \in 1..Len(Get(g, v)) : AllNullable(Get(g, v)[i], nullable)}
    IN IF more = {} THEN nullable ELSE NullableSet(g, nullable \cup more)

\* _generate_combinations: new_grammar[var].append(prod)
generate_combinations(new_grammar, var, prod) == AppendItem(new_grammar, var, prod)

RECURSIVE EpsProds(_, _, _, _)
EpsProds(new_grammar, var, prods, i) ==
    IF i > Len(prods) THEN new_grammar
    ELSE LET next == IF prods[i] # <<"">>
                     THEN generate_combinations(new_grammar, var, prods[i])
                     ELSE new_grammar
         IN CASE Evaluated(next) -> EpsProds(next, var, prods, i + 1)

RECURSIVE EpsVars(_, _, _)
EpsVars(new_grammar, g, i) ==
    IF i > Len(g) THEN new_grammar
    ELSE LET next == EpsProds(new_grammar, g[i].key, g[i].val, 1)
         IN CASE Evaluated(next) -> EpsVars(next, g, i + 1)

\* eliminate_epsilon_productions: the grammar it leaves in self.grammar
EpsilonEliminated(g) ==
    IF NullableSet(g, {}) # {} THEN EpsVars(<<>>, g, 1) ELSE g

\* len(prod) == 1 and prod[0] in self.grammar
IsUnit(g, prod) == Len(prod) = 1 /\ Has(g, prod[1])

\* the B of the unit productions var -> B
UnitBodies(g, var) ==
    {Get(g, var)[i][1] : i \in {j \in 1..Len(Get(g, var)) : IsUnit(g, Get(g, var)[j])}}

RECURSIVE UnitPairsFix(_, _)
\* eliminate_unit_productions: unit_pairs when the while loop ends
UnitPairsFix(g, unit_pairs) ==
    LET next == [var \in KeySet(g) |->
                    unit_pairs[var] \cup UNION {unit_pairs[B] : B \in UnitBodies(g, var)}]
    IN IF next = unit_pairs THEN unit_pairs ELSE UnitPairsFix(g, next)

UnitPairs(g) == UnitPairsFix(g, [var \in KeySet(g) |-> {var}])

\* the keys whose place in a loop over a unit_pairs set is open
UnitOrderDomain(g) ==
    UNION {UnitPairs(g)[var] : var \in {v \in KeySet(g) : Cardinality(UnitPairs(g)[v]) > 1}}

\* for B in S, with the set S visited in the order ord (keys outside ord
\* stand alone in their set)
SetOrder(S, ord) ==
    IF Cardinality(S) = 1 THEN <<CHOOSE x \in S : TRUE>>
    ELSE SelectSeq(ord, LAMBDA x : x \in S)

\* prod[0] on an empty list raises IndexError
RaisesIndexError(g) ==
    \E i \in 1..Len(g) : \E j \in 1..Len(g[i].val) : g[i].val[j] = <<>>

RECURSIVE UnitProds(_, _, _, _, _)
\* for prod in self.grammar[B]: keep the non-unit ones not yet in new_grammar[var]
UnitProds(new_grammar, g, var, prods, i) ==
    IF i > Len(prods) THEN new_grammar
    ELSE LET prod == prods[i]
             keep == /\ (Len(prod) > 1 \/ ~Has(g, prod[1]))
                     /\ ~(Has(new_grammar, var) /\ InSeq(prod, Get(new_grammar, var)))
             next == IF keep THEN AppendItem(new_grammar, var, prod) ELSE new_grammar
         IN CASE Evaluated(next) -> UnitProds(next, g, var, prods, i + 1)

RECURSIVE UnitTargets(_, _, _, _, _)
\* for B in unit_pairs[var]
UnitTargets(new_grammar, g, var, Bs, i) ==
    IF i > Len(Bs) THEN new_grammar
    ELSE LET next == UnitProds(new_grammar, g, var, Get(g, Bs[i]), 1)
         IN CASE Evaluated(next) -> UnitTargets(next, g, var, Bs, i + 1)

RECURSIVE UnitVars(_, _, _, _)
\* for var in self.grammar
UnitVars(new_grammar, g, ord, i) ==
    IF i > Len(g) THEN new_grammar
    ELSE LET next == UnitTargets(new_grammar, g, g[i].key,
                                 SetOrder(UnitPairs(g)[g[i].key], ord), 1)
         IN CASE Evaluated(next) -> UnitVars(next, g, ord, i + 1)

\* eliminate_unit_productions: the grammar it leaves in self.grammar when it
\* does not raise
UnitEliminated(g, ord) == UnitVars(<<>>, g, ord, 1)

\* symbol.islower() or symbol in ['a', 'the']
IsTerminalSymbol(symbol) == IsLower(symbol) \/ symbol \in {"a", "the"}

RECURSIVE TermSymbols(_, _, _)
\* for symbol in prod; acc = [g: new_grammar, tv: terminal_vars, ctr: new_var_counter,
\* np: new_prod]
TermSymbols(acc, prod, i) ==
    IF i > Len(prod) THEN acc
    ELSE LET symbol == prod[i]
             nv == get_new_variable(acc.ctr)
             next ==
                 IF IsTerminalSymbol(symbol)
                 THEN IF ~Has(acc.tv, symbol)
                      THEN [g |-> SetItem(acc.g, nv.name, << <<symbol>> >>),
                            tv |-> SetItem(acc.tv, symbol, nv.name),
                            ctr |-> nv.ctr,
                            np |-> Append(acc.np, nv.name)]
                      ELSE [acc EXCEPT !.np = Append(@, Get(acc.tv, symbol))]
                 ELSE [acc EXCEPT !.np = Append(@, symbol)]
         IN CASE Evaluated(next) -> TermSymbols(next, prod, i + 1)

RECURSIVE TermProds(_, _, _, _)
\* for prod in productions
TermProds(acc, var, prods, i) ==
    IF i > Len(prods) THEN acc
    ELSE LET done == TermSymbols([acc EXCEPT !.np = <<>>], prods[i], 1)
             next == IF Len(prods[i]) = 1
                     THEN [acc EXCEPT !.g = AppendItem(@, var, prods[i])]
                     ELSE [done EXCEPT !.g = AppendItem(@, var, done.np)]
         IN CASE Evaluated(next) -> TermProds(next, var, prods, i + 1)

RECURSIVE TermVars(_, _, _)
\* for var, productions in self.grammar.items()
TermVars(acc, g, i) ==
    IF i > Len(g) THEN acc
    ELSE LET next == TermProds(acc, g[i].key, g[i].val, 1)
         IN CASE Evaluated(next) -> TermVars(next, g, i + 1)

\* convert_terminals: [g: the grammar it leaves in self.grammar, ctr: the counter]
TerminalsConverted(g, ctr) ==
    TermVars([g |-> <<>>, tv |-> <<>>, ctr |-> ctr, np |-> <<>>], g, 1)

RECURSIVE BreakChain(_, _, _, _)
\* for i in range(len(prod) - 2); acc = [g: new_grammar, ctr, cur: current_var]
BreakChain(acc, prod, i, n) ==
    IF i >= n THEN acc
    ELSE LET nv == get_new_variable(acc.ctr)
             next == [g |-> AppendItem(acc.g, acc.cur, <<prod[i + 1], nv.name>>),
                      ctr |-> nv.ctr,
                      cur |-> nv.name]
         IN CASE Evaluated(next) -> BreakChain(next, prod, i + 1, n)

RECURSIVE BreakProds(_, _, _, _)
\* for prod in productions
BreakProds(acc, var, prods, i) ==
    IF i > Len(prods) THEN acc
    ELSE LET prod == prods[i]
             done == BreakChain([acc EXCEPT !.cur = var], prod, 0, Len(prod) - 2)
             next == IF Len(prod) <= 2
                     THEN [acc EXCEPT !.g = AppendItem(@, var, prod)]
                     ELSE [done EXCEPT !.g = AppendItem(@, done.cur,
                                                        SubSeq(prod, Len(prod) - 1, Len(prod)))]
         IN CASE Evaluated(next) -> BreakProds(next, var, prods, i + 1)

RECURSIVE BreakVars(_, _, _)
\* for var, productions in self.grammar.items()
BreakVars(acc, g, i) ==
    IF i > Len(g) THEN acc
    ELSE LET next == BreakProds(acc, g[i].key, g[i].val, 1)
         IN CASE Evaluated(next) -> BreakVars(next, g, i + 1)

\* break_long_productions: [g: the grammar it leaves in self.grammar, ctr: the counter]
LongBroken(g, ctr) == BreakVars([g |-> <<>>, ctr |-> ctr, cur |-> ""], g, 1)

\* convert() on a new instance: what it returns when it does not raise and
\* the loops over the unit_pairs sets follow ord
ConvertedGrammar(G, ord) ==
    LET s1 == StartIsolated(<<>>, G.start, G.rules)
        s3 == UnitEliminated(EpsilonEliminated(s1), ord)
        s4 == TerminalsConverted(s3, 0)
    IN [start |-> "S0", rules |-> LongBroken(s4.g, s4.ctr).g]

\* the orders the unit_pairs loops of convert() on a new instance can follow
ConvertOrders(G) ==
    SeqPerms(UnitOrderDomain(EpsilonEliminated(StartIsolated(<<>>, G.start, G.rules))))

\* the names get_new_variable returned while the counter went from c0 to c1
NewNames(c0, c1) == [i \in 1..(c1 - c0) |-> XName(c0 + i)]

(***************************************************************************)
(* CYKParser                                                               *)
(***************************************************************************)
RECURSIVE ReverseProds(_, _, _, _)
\* for prod in productions: reverse[tuple(prod)].append(var)
ReverseProds(reverse, var, prods, i) ==
    IF i > Len(prods) THEN reverse
    ELSE LET next == AppendItem(reverse, prods[i], var)
         IN CASE Evaluated(next) -> ReverseProds(next, var, prods, i + 1)

RECURSIVE ReverseVars(_, _, _)
ReverseVars(reverse, g, i) ==
    IF i > Len(g) THEN reverse
    ELSE LET next == ReverseProds(reverse, g[i].key, g[i].val, 1)
         IN CASE Evaluated(next) -> ReverseVars(next, g, i + 1)

\* _build_reverse_grammar
build_reverse_grammar(g) == ReverseVars(<<>>, g, 1)

\* CYKParser.__init__: the instance built from cnf_grammar
CYKParser(cnf_grammar) ==
    [start_symbol |-> cnf_grammar.start,
     grammar |-> cnf_grammar.rules,
     reverse_grammar |-> build_reverse_grammar(cnf_grammar.rules)]

\* sentence.lower().split()
Tokenize(sentence) == Split([i \in 1..Len(sentence) |-> Lower(sentence[i])])

\* defaultdict(list): d[k] read
ReadItem(d, k) == IF Has(d, k) THEN Get(d, k) ELSE <<>>

\* a loop over a cell of the table visits its variables in the order of the
\* grammar's keys (one of the orders the set can have)
CellOrder(g, cell) == SelectSeq(Keys(g), LAMBDA v : v \in cell)

\* (prod[0], None, None): the backpointer of a length-1 span
LeafEntry(prod) == <<prod[1], None, None>>

\* the entry with the right part starting one cell early
SplitEntry_Mutant(B, C, k, i) == <<B, C, k, i, i + k>>

\* (B, C, k, i, i + k + 1): the backpointer of a longer span
SplitEntry(B, C, k, i) == <<B, C, k, i, i + k + 1>>

RECURSIVE DiagProds(_, _, _, _, _, _)
\* for prod in productions: if len(prod) == 1 and prod[0] == word
\* st = [table, backpointer]
DiagProds(st, i, word, var, prods, p) ==
    IF p > Len(prods) THEN st
    ELSE LET prod == prods[p]
             next == IF Len(prod) = 1 /\ prod[1] = word
                     THEN [table |-> [st.table EXCEPT ![i][0] = @ \cup {var}],
                           backpointer |-> [st.backpointer EXCEPT ![i][0] =
                                              AppendItem(@, var, LeafEntry(prod))]]
                     ELSE st
         IN CASE Evaluated(next) -> DiagProds(next, i, word, var, prods, p + 1)

RECURSIVE DiagVars(_, _, _, _, _)
\* for var, productions in self.grammar.items()
DiagVars(st, g, i, word, v) ==
    IF v > Len(g) THEN st
    ELSE LET next == DiagProds(st, i, word, g[v].key, g[v].val, 1)
         IN CASE Evaluated(next) -> DiagVars(next, g, i, word, v + 1)

\* the body of `for i in range(n)` for one i
DiagCell(st, g, ws, i) == DiagVars(st, g, i, ws[i + 1], 1)

RECURSIVE DiagFill(_, _, _, _)
\* PASO 1: for i in range(n)
DiagFill(st, g, ws, i) ==
    IF i >= Len(ws) THEN st
    ELSE LET next == DiagCell(st, g, ws, i)
         IN CASE Evaluated(next) -> DiagFill(next, g, ws, i + 1)

RECURSIVE AddHeads(_, _, _, _, _, _, _, _)
\* for A in self.reverse_grammar[key]
AddHeads(st, heads, a, B, C, i, j, k) ==
    IF a > Len(heads) THEN st
    ELSE LET next == [table |-> [st.table EXCEPT ![i][j] = @ \cup {heads[a]}],
                      backpointer |-> [st.backpointer EXCEPT ![i][j] =
                                         AppendItem(@, heads[a], SplitEntry(B, C, k, i))]]
         IN CASE Evaluated(next) -> AddHeads(next, heads, a + 1, B, C, i, j, k)

RECURSIVE PairLoop(_, _, _, _, _, _, _, _, _)
\* for B in left_vars: for C in right_vars; b, c index the two loops
PairLoop(st, reverse, left, right, b, c, i, j, k) ==
    IF b > Len(left) THEN st
    ELSE IF c > Len(right) THEN PairLoop(st, reverse, left, right, b + 1, 1, i, j, k)
    ELSE LET key == <<left[b], right[c]>>
             next == IF Has(reverse, key)
                     THEN AddHeads(st, Get(reverse, key), 1, left[b], right[c], i, j, k)
                     ELSE st
         IN CASE Evaluated(next) -> PairLoop(next, reverse, left, right, b, c + 1, i, j, k)

\* table[i][k]: the indices of the left sub-span's cell
LeftCellAt(i, k) == <<i, k>>

\* the right cell taken one span length too long
RightCellAt_Mutant(i, j, k) == <<i + k + 1, j - k>>

\* table[i + k + 1][j - k - 1]: the indices of the right sub-span's cell
RightCellAt(i, j, k) == <<i + k + 1, j - k - 1>>

\* the right sub-span's cell for the split k of the cell (i, j)
RightCell(tbl, i, j, k) == tbl[RightCellAt(i, j, k)[1]][RightCellAt(i, j, k)[2]]

\* the body of `for k in range(length - 1)` for one k
SplitCell(st, p, i, length, k) ==
    LET j == length - 1
        left_vars == st.table[LeftCellAt(i, k)[1]][LeftCellAt(i, k)[2]]
        right_vars == RightCell(st.table, i, j, k)
    IN PairLoop(st, p.reverse_grammar, CellOrder(p.grammar, left_vars),
                CellOrder(p.grammar, right_vars), 1, 1, i, j, k)

RECURSIVE SplitLoop(_, _, _, _, _, _)
\* for k in range(length - 1)
SplitLoop(st, p, i, length, k, n) ==
    IF k >= length - 1 THEN st
    ELSE LET next == SplitCell(st, p, i, length, k)
         IN CASE Evaluated(next) -> SplitLoop(next, p, i, length, k + 1, n)

RECURSIVE StartLoop(_, _, _, _, _)
\* for i in range(n - length + 1)
StartLoop(st, p, length, i, n) ==
    IF i >= n - length + 1 THEN st
    ELSE LET next == SplitLoop(st, p, i, length, 0, n)
         IN CASE Evaluated(next) -> StartLoop(next, p, length, i + 1, n)

RECURSIVE LengthLoop(_, _, _, _)
\* PASO 2: for length in range(2, n + 1)
LengthLoop(st, p, length, n) ==
    IF length > n THEN st
    ELSE LET next == StartLoop(st, p, length, 0, n)
         IN CASE Evaluated(next) -> LengthLoop(next, p, length + 1, n)

\* the n x n table of set() and the n x n table of defaultdict(list)
EmptyTables(n) ==
    [table |-> [i \in 0..(n - 1) |-> [j \in 0..(n - 1) |-> {}]],
     backpointer |-> [i \in 0..(n - 1) |-> [j \in 0..(n - 1) |-> <<>>]]]

\* parse(): the table and the backpointers when the loops end
FilledTables(p, ws) ==
    LET n == Len(ws)
    IN LengthLoop(DiagFill(EmptyTables(n), p.grammar, ws, 0), p, 2, n)

\* acceptance by any non-terminal that spans the sentence
Accepts_Mutant(p, tbl, n) == tbl[0][n - 1] # {}

\* self.start_symbol in table[0][n - 1]
Accepts(p, tbl, n) == p.start_symbol \in tbl[0][n - 1]

\* entries[0]: the first entry recorded.  Entries of one split point were
\* appended in the order the loops visited the two sets, so any of the
\* entries that share the first split point can be the first.
FirstEntries(entries) == {entries[m] : m \in {x \in 1..Len(entries) : entries[x][3] = entries[1][3]}}

RECURSIVE build_tree(_, _, _, _)
\* build_tree(var, i, j): the values it can return
build_tree(bp, var, i, j) ==
    LET entries == ReadItem(bp[i][j], var) IN
    IF j = 0
    THEN IF Len(entries) > 0
         THEN {[symbol |-> var, terminal |-> entries[1][1]]}
         ELSE {None}
    ELSE IF Len(entries) > 0
         THEN UNION {{[symbol |-> var, left |-> l, right |-> r] :
                        l \in build_tree(bp, e[1], e[4], e[3]),
                        r \in build_tree(bp, e[2], e[5], j - e[3] - 1)} :
                     e \in FirstEntries(entries)}
         ELSE {None}

\* build_parse_tree(parse_data): the values it can return
build_parse_tree(p, parse_data) ==
    IF parse_data = None THEN {None}
    ELSE build_tree(parse_data.backpointer, p.start_symbol, 0, Len(parse_data.words) - 1)

(***************************************************************************)
(* Inputs                                                                  *)
(***************************************************************************)
\* The productions input grammars are made of: [key: the non-terminal, prod:
\* the production string].  Besides well-formed rules the pool holds an
\* empty production, a lowercase non-terminal (n), non-terminals named like
\* the converter's own identifiers (S0, X1), and, when a grammar holds a
\* body without the rule of its non-terminal, an undefined reference.
RulePool ==
    << [key |-> "S",  prod |-> <<"A">>],
       [key |-> "S",  prod |-> <<"a", SPACE, "S", SPACE, "b">>],
       [key |-> "S",  prod |-> <<"S", SPACE, "A">>],
       [key |-> "S",  prod |-> <<"a", SPACE, "X1">>],
       [key |-> "S",  prod |-> <<"n", SPACE, "b">>],
       [key |-> "S",  prod |-> <<>>],
       [key |-> "A",  prod |-> <<"a">>],
       [key |-> "A",  prod |-> <<"A">>],
       [key |-> "A",  prod |-> <<"S">>],
       [key |-> "X1", prod |-> <<"b">>],
       [key |-> "S0", prod |-> <<"b">>],
       [key |-> "n",  prod |-> <<"a">>] >>

RECURSIVE MkRules(_, _, _)
\* the 'rules' dict literal holding the productions sel of the pool, in pool order
MkRules(rules, sel, i) ==
    IF i > Len(RulePool) THEN rules
    ELSE LET next == IF i \in sel
                     THEN AppendItem(rules, RulePool[i].key, RulePool[i].prod)
                     ELSE rules
         IN CASE Evaluated(next) -> MkRules(next, sel, i + 1)

Grammars ==
    {[start |-> "S", rules |-> MkRules(<<>>, sel, 1)] :
        sel \in {T \in SUBSET (1..Len(RulePool)) : Cardinality(T) <= MaxRules}}

\* main(): original_grammar
DemoGrammar ==
    [start |-> "S",
     rules |-> <<
       [key |-> "S",   val |-> << <<"NP", SPACE, "VP">> >>],
       [key |-> "VP",  val |-> << <<"VP", SPACE, "PP">>, <<"V", SPACE, "NP">>,
                                  <<"cooks">>, <<"drinks">>, <<"eats">>, <<"cuts">> >>],
       [key |-> "PP",  val |-> << <<"P", SPACE, "NP">> >>],
       [key |-> "NP",  val |-> << <<"Det", SPACE, "N">>, <<"he">>, <<"she">> >>],
       [key |-> "V",   val |-> << <<"cooks">>, <<"drinks">>, <<"eats">>, <<"cuts">> >>],
       [key |-> "P",   val |-> << <<"in">>, <<"with">> >>],
       [key |-> "N",   val |-> << <<"cat">>, <<"dog">>, <<"beer">>, <<"cake">>, <<"juice">>,
                                  <<"meat">>, <<"soup">>, <<"fork">>, <<"knife">>,
                                  <<"oven">>, <<"spoon">> >>],
       [key |-> "Det", val |-> << <<"a">>, <<"the">> >>] >>]

\* the sentence string made of the words ws, a blank between two words
RECURSIVE Sentence(_)
Sentence(ws) ==
    IF Len(ws) <= 1 THEN ws
    ELSE <<ws[1], SPACE>> \o Sentence(Tail(ws))

\* the words sentences are made of
Tokens == {"a", "b"}

WordSeqs(n) == UNION {[1..m -> Tokens] : m \in 1..n}

\* sentences typed with capitals and with more blanks than one
TypedSentences ==
    {<<"A">>, <<"a", SPACE, SPACE, "B">>, <<SPACE, "A", SPACE, "b", SPACE>>}

\* the empty sentence, a blank one, the sentences of 1..MaxWords words, and
\* the typed ones
Sentences ==
    {<<>>, <<SPACE>>} \cup {Sentence(ws) : ws \in WordSeqs(MaxWords)} \cup TypedSentences

\* run_examples(): test_sentences, [words of the sentence, expected]
ExampleSentences ==
    << [words |-> <<"she", "eats", "a", "cake">>, expected |-> TRUE],
       [words |-> <<"he", "drinks", "the", "beer">>, expected |-> TRUE],
       [words |-> <<"the", "cat", "cooks", "the", "soup", "with", "a", "dog">>,
        expected |-> TRUE],
       [words |-> <<"she", "eats", "the", "fork">>, expected |-> TRUE],
       [words |-> <<"she", "eats">>, expected |-> FALSE],
       [words |-> <<"eats", "a", "cake">>, expected |-> FALSE],
       [words |-> <<"the", "cat", "quickly", "drinks", "beer">>, expected |-> FALSE] >>

\* the example sentences and the sentences typed as a part of one
DemoSentences ==
    UNION {{Sentence(SubSeq(ExampleSentences[e].words, a, b)) :
                a \in 1..Len(ExampleSentences[e].words),
                b \in 1..Len(ExampleSentences[e].words)} :
           e \in 1..Len(ExampleSentences)}

\* the sentences parse() is called with
SentencePool == IF original_grammar = DemoGrammar THEN DemoSentences ELSE Sentences

(***************************************************************************)
(* CFGtoCNF: the state machine                                             *)
(***************************************************************************)
\* CFGtoCNF.__init__
ConverterInit(g) ==
    /\ original_grammar = g
    /\ grammar = <<>>
    /\ start_symbol = g.start
    /\ new_var_counter = 0
    /\ pc = "constructed"
    /\ results = <<>>
    /\ introduced = <<>>
    /\ err = NoError
    /\ parser = None
    /\ words = <<>>
    /\ table = <<>>
    /\ backpointer = <<>>
    /\ parse_result = None
    /\ tree = None
    /\ fill = None
    /\ fill_log = <<>>

Init == \E g \in Grammars : ConverterInit(g)

InitDemo == ConverterInit(DemoGrammar)

fillVars == <<fill, fill_log>>

parserVars == <<parser, words, table, backpointer, parse_result, tree, fillVars>>

\* convert() is called (anew on the same instance, as long as no parser was
\* built) and runs step 1.  self.grammar is not reset: the rules go into the
\* dict the instance holds.
eliminate_start_symbol ==
    /\ \/ pc = "constructed"
       \/ pc = "converted" /\ Len(results) < MaxRuns
    /\ grammar' = StartIsolated(grammar, start_symbol, original_grammar.rules)
    /\ start_symbol' = "S0"
    /\ introduced' = <<"S0">>
    /\ pc' = "step1"
    /\ UNCHANGED <<original_grammar, new_var_counter, results, err, parserVars>>

eliminate_epsilon_productions ==
    /\ pc = "step1"
    /\ grammar' = EpsilonEliminated(grammar)
    /\ pc' = "step2"
    /\ UNCHANGED <<original_grammar, start_symbol, new_var_counter, results, introduced,
                   err, parserVars>>

\* the loops over the sets unit_pairs[var] follow one order of the keys
eliminate_unit_productions ==
    /\ pc = "step2"
    /\ IF RaisesIndexError(grammar)
       THEN /\ err' = "IndexError"
            /\ pc' = "raised"
            /\ UNCHANGED grammar
       ELSE /\ \E ord \in SeqPerms(UnitOrderDomain(grammar)) :
                   grammar' = UnitEliminated(grammar, ord)
            /\ pc' = "step3"
            /\ UNCHANGED err
    /\ UNCHANGED <<original_grammar, start_symbol, new_var_counter, results, introduced,
                   parserVars>>

convert_terminals ==
    /\ pc = "step3"
    /\ LET r == TerminalsConverted(grammar, new_var_counter) IN
         /\ grammar' = r.g
         /\ new_var_counter' = r.ctr
         /\ introduced' = introduced \o NewNames(new_var_counter, r.ctr)
    /\ pc' = "step4"
    /\ UNCHANGED <<original_grammar, start_symbol, results, err, parserVars>>

\* step 5, and convert() returns {'start': self.start_symbol, 'rules': self.grammar}
break_long_productions ==
    /\ pc = "step4"
    /\ LET r == LongBroken(grammar, new_var_counter) IN
         /\ grammar' = r.g
         /\ new_var_counter' = r.ctr
         /\ introduced' = introduced \o NewNames(new_var_counter, r.ctr)
         /\ results' = Append(results, [start |-> start_symbol, rules |-> r.g])
    /\ pc' = "converted"
    /\ UNCHANGED <<original_grammar, start_symbol, err, parserVars>>

(***************************************************************************)
(* CYKParser: the state machine                                            *)
(***************************************************************************)
converterVars == <<original_grammar, grammar, start_symbol, new_var_counter, results,
                   introduced>>

\* main(): parser = CYKParser(cnf_grammar), with the grammar the first
\* convert() returned
CYKParserInit ==
    /\ pc = "converted"
    /\ Len(results) = 1
    /\ parser' = CYKParser(results[1])
    /\ pc' = "ready"
    /\ UNCHANGED <<converterVars, err, words, table, backpointer, parse_result, tree,
                   fillVars>>

\* parse(sentence); with n = 0 the table is [] and table[0] raises IndexError
parse ==
    /\ pc = "ready"
    /\ \E sentence \in SentencePool :
         LET ws == Tokenize(sentence)
             n == Len(ws)
             st == FilledTables(parser, ws)
         IN /\ words' = ws
            /\ table' = st.table
            /\ backpointer' = st.backpointer
            /\ IF n = 0
               THEN /\ err' = "IndexError"
                    /\ parse_result' = None
                    /\ pc' = "parse_raised"
               ELSE /\ err' = NoError
                    /\ parse_result' =
                          [accepts |-> Accepts(parser, st.table, n),
                           parse_data |-> IF Accepts(parser, st.table, n)
                                          THEN [table |-> st.table,
                                                backpointer |-> st.backpointer,
                                                words |-> ws]
                                          ELSE None]
                    /\ pc' = "parsed"
    /\ tree' = None
    /\ UNCHANGED <<converterVars, parser, fillVars>>

\* build_parse_tree(parse_data), with the parse data parse() returned
BuildParseTree ==
    /\ pc = "parsed"
    /\ tree' \in build_parse_tree(parser, parse_result.parse_data)
    /\ pc' = "tree"
    /\ UNCHANGED <<converterVars, err, parser, words, table, backpointer, parse_result,
                   fillVars>>

\* the caller is done with the sentence and reads the next one; the values
\* of the last call are dropped
NextSentence ==
    /\ pc \in {"parsed", "tree"}
    /\ pc' = "ready"
    /\ words' = <<>>
    /\ table' = <<>>
    /\ backpointer' = <<>>
    /\ parse_result' = None
    /\ tree' = None
    /\ fill' = None
    /\ fill_log' = <<>>
    /\ UNCHANGED <<converterVars, err, parser>>

Next ==
    \/ eliminate_start_symbol
    \/ eliminate_epsilon_productions
    \/ eliminate_unit_productions
    \/ convert_terminals
    \/ break_long_productions
    \/ CYKParserInit
    \/ parse
    \/ BuildParseTree
    \/ NextSentence

Spec == Init /\ [][Next]_vars

SpecDemo == InitDemo /\ [][Next]_vars

(***************************************************************************)
(* Notions the properties are stated with                                  *)
(***************************************************************************)
\* the productions of the input grammar G, as symbol sequences
SplitRules(G) ==
    [i \in 1..Len(G.rules) |->
        [key |-> G.rules[i].key,
         val |-> [j \in 1..Len(G.rules[i].val) |-> Split(G.rules[i].val[j])]]]

\* every production of every rule of the dict d
AllProds(d) == UNION {{d[i].val[j] : j \in 1..Len(d[i].val)} : i \in 1..Len(d)}

\* the symbols of the bodies of d
BodySymbols(d) == UNION {{prod[m] : m \in 1..Len(prod)} : prod \in AllProds(d)}

\* a production in Chomsky normal form, for the rules d
IsCNFProd(d, prod) ==
    \/ Len(prod) = 1 /\ ~Has(d, prod[1])
    \/ Len(prod) = 2 /\ Has(d, prod[1]) /\ Has(d, prod[2])

IsCNF(d) == \A prod \in AllProds(d) : IsCNFProd(d, prod)

\* G has no empty production
NoEmptyProduction(G) == <<>> \notin AllProds(SplitRules(G))

\* G is closed: the start symbol and every symbol of a body that is not a
\* lowercase word has an entry
Closed(G) ==
    /\ Has(G.rules, G.start)
    /\ \A x \in BodySymbols(SplitRules(G)) : IsLower(x) \/ Has(G.rules, x)

RECURSIVE UnitClose(_, _)
\* T and the non-terminals that reach T through unit productions of R
UnitClose(R, T) ==
    LET more == {A \in KeySet(R) \ T :
                    \E prod \in {Get(R, A)[j] : j \in 1..Len(Get(R, A))} :
                        Len(prod) = 1 /\ prod[1] \in T}
    IN IF more = {} THEN T ELSE UnitClose(R, T \cup more)

RECURSIVE Deriving(_, _, _, _)
RECURSIVE BodyDerives(_, _, _, _, _, _)
\* the symbol x derives the len words of ws after the first i (a symbol
\* without an entry is a terminal and derives itself)
SymbolDerives(R, ws, x, i, len) ==
    IF Has(R, x) THEN x \in Deriving(R, ws, i, len)
    ELSE len = 1 /\ ws[i + 1] = x

\* the symbols body[m..] derive the len words of ws after the first i, each
\* symbol at least one word
BodyDerives(R, ws, body, m, i, len) ==
    IF m = Len(body) THEN SymbolDerives(R, ws, body[m], i, len)
    ELSE \E l \in 1..(len - (Len(body) - m)) :
            /\ SymbolDerives(R, ws, body[m], i, l)
            /\ BodyDerives(R, ws, body, m + 1, i + l, len - l)

\* the non-terminals of R that derive the len words of ws after the first i
Deriving(R, ws, i, len) ==
    UnitClose(R, {A \in KeySet(R) :
                    \E prod \in {Get(R, A)[j] : j \in 1..Len(Get(R, A))} :
                        \/ /\ Len(prod) = 1
                           /\ ~Has(R, prod[1])
                           /\ len = 1
                           /\ ws[i + 1] = prod[1]
                        \/ /\ Len(prod) >= 2
                           /\ Len(prod) <= len
                           /\ BodyDerives(R, ws, prod, 1, i, len)})

\* ws is derivable from the start symbol of G with the productions of G
Derivable(G, ws) ==
    /\ Len(ws) > 0
    /\ Has(G.rules, G.start)
    /\ G.start \in Deriving(SplitRules(G), ws, 0, Len(ws))

\* G is well formed: closed, without empty productions, its non-terminals
\* not lowercase words (the naming convention convert_terminals relies on)
WellFormedInput(G) ==
    /\ Closed(G)
    /\ NoEmptyProduction(G)
    /\ \A k \in KeySet(G.rules) : ~IsLower(k)

\* the identifiers get_new_variable has returned so far on the instance
GeneratedNames == {XName(n) : n \in 1..new_var_counter}

\* no non-terminal of G bears a name the converter introduces
NoReservedName(G) == KeySet(G.rules) \cap ({"S0"} \cup GeneratedNames) = {}

\* the sequences that hold the elements of s in another order
Reordered(s) == {[j \in 1..Len(s) |-> s[pi[j]]] : pi \in SeqPerms(1..Len(s))}

\* the grammars that differ from G in the order of the productions of one
\* non-terminal
Reorderings(G) ==
    UNION {{[G EXCEPT !.rules[i].val = v] : v \in Reordered(G.rules[i].val)} :
           i \in 1..Len(G.rules)}

\* parse(ws).accepts on the parser of a new conversion of G
AcceptsOf(G, ord, ws) ==
    LET p == CYKParser(ConvertedGrammar(G, ord))
    IN Accepts(p, FilledTables(p, ws).table, Len(ws))

\* the productions of the rules d, each with its head
RuleSet(d) == UNION {{<<d[i].key, d[i].val[j]>> : j \in 1..Len(d[i].val)} : i \in 1..Len(d)}

\* the fresh variables (X-variables) that occur in the rules d
XVars(d) == (KeySet(d) \cup BodySymbols(d)) \cap GeneratedNames

RenamedSymbol(f, x) == IF x \in DOMAIN f THEN f[x] ELSE x

\* the rule set of d with its X-variables renamed by f
Renamed(f, d) ==
    {<<RenamedSymbol(f, r[1]), [m \in 1..Len(r[2]) |-> RenamedSymbol(f, r[2][m])]>> :
        r \in RuleSet(d)}

\* r1 and r2 have the same start symbol and the same productions up to a
\* bijection between their X-variables
Isomorphic(r1, r2) ==
    /\ r1.start = r2.start
    /\ KeySet(r1.rules) \ XVars(r1.rules) = KeySet(r2.rules) \ XVars(r2.rules)
    /\ Cardinality(XVars(r1.rules)) = Cardinality(XVars(r2.rules))
    /\ \/ RuleSet(r1.rules) = RuleSet(r2.rules)
       \/ \E f \in [XVars(r1.rules) -> XVars(r2.rules)] :
            /\ \A x, y \in XVars(r1.rules) : f[x] = f[y] => x = y
            /\ Renamed(f, r1.rules) = RuleSet(r2.rules)

IsLeaf(t) == DOMAIN t = {"symbol", "terminal"}
IsInner(t) == DOMAIN t = {"symbol", "left", "right"}

RECURSIVE WellFormedTree(_)
\* every node is a leaf with a terminal or an inner node with two trees
WellFormedTree(t) ==
    \/ IsLeaf(t)
    \/ IsInner(t) /\ WellFormedTree(t.left) /\ WellFormedTree(t.right)

RECURSIVE Leaves(_)
\* the terminals of the leaves of the well-formed tree t, left to right
Leaves(t) == IF IsLeaf(t) THEN <<t.terminal>> ELSE Leaves(t.left) \o Leaves(t.right)

\* some production of the rules d is var -> t
Yields(d, var, t) == Has(d, var) /\ InSeq(<<t>>, Get(d, var))

\* G lacks the entry of its start symbol or of a non-terminal of a body
Malformed(G) ==
    \/ ~Has(G.rules, G.start)
    \/ \E x \in BodySymbols(SplitRules(G)) : ~IsLower(x) /\ ~Has(G.rules, x)

(***************************************************************************)
(* parse(), one loop iteration a step                                      *)
(***************************************************************************)
\* the loops have ended
FillDone == [phase |-> "done", length |-> 0, i |-> 0, k |-> 0]

\* for length in range(2, n + 1): the first iteration, if there is one
FirstSplit(n) ==
    IF n >= 2 THEN [phase |-> "split", length |-> 2, i |-> 0, k |-> 0] ELSE FillDone

\* for i in range(n): the first iteration, if there is one
FirstFill(n) ==
    IF n >= 1 THEN [phase |-> "diag", length |-> 1, i |-> 0, k |-> 0] ELSE FirstSplit(n)

\* the iteration that follows pos: the next k, else the next i, else the
\* next length
NextFill(pos, n) ==
    IF pos.phase = "diag"
    THEN IF pos.i + 1 < n THEN [pos EXCEPT !.i = @ + 1] ELSE FirstSplit(n)
    ELSE IF pos.k + 1 < pos.length - 1 THEN [pos EXCEPT !.k = @ + 1]
    ELSE IF pos.i + 1 < n - pos.length + 1 THEN [pos EXCEPT !.i = @ + 1, !.k = 0]
    ELSE IF pos.length + 1 < n + 1 THEN [pos EXCEPT !.length = @ + 1, !.i = 0, !.k = 0]
    ELSE FillDone

\* the cells of the table or of the backpointers that differ in st0 and st1
ChangedCells(st0, st1, n) ==
    {c \in (0..(n - 1)) \X (0..(n - 1)) :
        \/ st0.table[c[1]][c[2]] # st1.table[c[1]][c[2]]
        \/ st0.backpointer[c[1]][c[2]] # st1.backpointer[c[1]][c[2]]}

\* the record of one step: the cell it computes, the cells it reads, the
\* cells it has modified
FillRecord(cell, reads, st0, st1, n) ==
    [cell |-> cell, reads |-> reads, changed |-> ChangedCells(st0, st1, n)]

\* parse(sentence) up to the loops: words, table and backpointer are made
ParseBegin ==
    /\ pc = "ready"
    /\ \E sentence \in SentencePool :
         LET ws == Tokenize(sentence) IN
            /\ words' = ws
            /\ table' = EmptyTables(Len(ws)).table
            /\ backpointer' = EmptyTables(Len(ws)).backpointer
            /\ fill' = FirstFill(Len(ws))
    /\ fill_log' = <<>>
    /\ pc' = "filling"
    /\ UNCHANGED <<converterVars, err, parser, parse_result, tree>>

\* PASO 1, one i: the cell (i, 0)
FillDiagonal ==
    /\ pc = "filling"
    /\ fill.phase = "diag"
    /\ LET st == [table |-> table, backpointer |-> backpointer]
           next == DiagCell(st, parser.grammar, words, fill.i)
       IN /\ table' = next.table
          /\ backpointer' = next.backpointer
          /\ fill_log' = Append(fill_log,
                                FillRecord(<<fill.i, 0>>, {}, st, next, Len(words)))
    /\ fill' = NextFill(fill, Len(words))
    /\ UNCHANGED <<converterVars, err, parser, words, parse_result, tree, pc>>

\* PASO 2, one k: the split k of the cell (i, length - 1)
FillSplit ==
    /\ pc = "filling"
    /\ fill.phase = "split"
    /\ LET st == [table |-> table, backpointer |-> backpointer]
           next == SplitCell(st, parser, fill.i, fill.length, fill.k)
       IN /\ table' = next.table
          /\ backpointer' = next.backpointer
          /\ fill_log' = Append(fill_log,
                                FillRecord(<<fill.i, fill.length - 1>>,
                                           {LeftCellAt(fill.i, fill.k),
                                            RightCellAt(fill.i, fill.length - 1, fill.k)},
                                           st, next, Len(words)))
    /\ fill' = NextFill(fill, Len(words))
    /\ UNCHANGED <<converterVars, err, parser, words, parse_result, tree, pc>>

\* parse() after the loops: accepts and the return; with n = 0 table[0]
\* raises IndexError
ParseReturn ==
    /\ pc = "filling"
    /\ fill.phase = "done"
    /\ IF Len(words) = 0
       THEN /\ err' = "IndexError"
            /\ parse_result' = None
            /\ pc' = "parse_raised"
       ELSE /\ err' = NoError
            /\ parse_result' =
                  [accepts |-> Accepts(parser, table, Len(words)),
                   parse_data |-> IF Accepts(parser, table, Len(words))
                                  THEN [table |-> table,
                                        backpointer |-> backpointer,
                                        words |-> words]
                                  ELSE None]
            /\ pc' = "parsed"
    /\ UNCHANGED <<converterVars, parser, words, table, backpointer, tree, fillVars>>

\* the grammars parse() is followed on step by step: the well-formed ones
\* with the non-terminals S and A
FillGrammars ==
    {G \in Grammars : WellFormedInput(G) /\ KeySet(G.rules) \subseteq {"S", "A"}}

InitFill == \E g \in FillGrammars : ConverterInit(g)

NextStepwise ==
    \/ eliminate_start_symbol
    \/ eliminate_epsilon_productions
    \/ eliminate_unit_productions
    \/ convert_terminals
    \/ break_long_productions
    \/ CYKParserInit
    \/ ParseBegin
    \/ FillDiagonal
    \/ FillSplit
    \/ ParseReturn
    \/ NextSentence

SpecFill == InitFill /\ [][NextStepwise]_vars

(***************************************************************************)
(* Properties                                                              *)
(***************************************************************************)
\* C1: every production of the rules convert() returns is of length 1 with a
\* terminal (not a key of the returned rules) or of length 2 with two
\* non-terminals (keys of the returned rules).
\* Stated for the well-formed input grammars that use none of the
\* converter's names.
C1_ReturnedRulesAreCNF ==
    (/\ pc = "converted"
     /\ Len(results) = 1
     /\ WellFormedInput(original_grammar)
     /\ NoReservedName(original_grammar))
    => IsCNF(results[1].rules)

\* C2: for a closed input grammar without empty productions, parse on the
\* converted grammar accepts a non-empty token sequence exactly when the
\* input grammar derives it from its start symbol.  Stated for the input
\* grammars that also keep the naming convention.
C2_LanguagePreserved ==
    (/\ pc = "parsed"
     /\ WellFormedInput(original_grammar))
    => (parse_result.accepts <=> Derivable(original_grammar, words))

\* C3: parse on an empty token sequence does not raise and returns a reject
\* without parse data.
C3_EmptySentenceRejected ==
    (pc \in {"parsed", "parse_raised"} /\ Len(words) = 0)
    => /\ pc = "parsed"
       /\ err = NoError
       /\ parse_result.accepts = FALSE
       /\ parse_result.parse_data = None

\* C4: for an accepted sentence build_parse_tree returns a tree, each node
\* of which is a leaf with a terminal or an inner node with two subtrees,
\* and whose leaves read left to right are the tokens of the sentence.
C4_TreeYieldsTokens ==
    (pc = "tree" /\ parse_result.accepts)
    => /\ tree # None
       /\ WellFormedTree(tree)
       /\ Leaves(tree) = words

\* C4 witness: the tree of an accepted sentence of three words was built
C4_Witness ==
    /\ pc = "tree"
    /\ parse_result.accepts
    /\ Len(words) = 3
    /\ IsInner(tree)

\* C5: acceptance of a sentence does not depend on the order of the
\* productions inside the rule list of one non-terminal of the input
\* grammar.  Stated for the well-formed input grammars.
C5_OrderOfProductions ==
    (/\ pc = "parsed"
     /\ WellFormedInput(original_grammar))
    => \A G \in Reorderings(original_grammar) :
          \A ord \in ConvertOrders(G) :
             AcceptsOf(G, ord, words) = parse_result.accepts

\* C6 as claimed: a sentence of one token t is accepted exactly when some
\* non-terminal of the CNF grammar has the production t.  Stated for the
\* well-formed input grammars that use none of the converter's names.
C6_SomeNonTerminalYields ==
    (/\ pc = "parsed"
     /\ Len(words) = 1
     /\ WellFormedInput(original_grammar)
     /\ NoReservedName(original_grammar)
     /\ IsCNF(parser.grammar))
    => (parse_result.accepts
        <=> \E var \in KeySet(parser.grammar) : Yields(parser.grammar, var, words[1]))

\* C6 amended: a sentence of one token t is accepted exactly when the start
\* symbol of the grammar has the production t.
C6_StartSymbolYields ==
    (pc = "parsed" /\ Len(words) = 1)
    => (parse_result.accepts
        <=> Yields(parser.grammar, parser.start_symbol, words[1]))

\* C6 witness: one token that a non-terminal of a CNF grammar yields, and
\* one the start symbol yields
C6_Witness ==
    /\ pc = "parsed"
    /\ Len(words) = 1
    /\ IsCNF(parser.grammar)
    /\ parse_result.accepts
    /\ \E var \in KeySet(parser.grammar) \ {parser.start_symbol} :
          /\ Yields(parser.grammar, var, "b")
          /\ ~Yields(parser.grammar, parser.start_symbol, "b")

\* C7: on the demonstration grammar parse returns the acceptance value that
\* run_examples lists for each example sentence.
C7_ExamplesAsExpected ==
    (pc = "parsed" /\ original_grammar = DemoGrammar)
    => \A e \in 1..Len(ExampleSentences) :
          words = ExampleSentences[e].words
          => parse_result.accepts = ExampleSentences[e].expected

\* C8: convert() on a grammar that lacks the entry of its start symbol or
\* of a referenced non-terminal fails with MalformedGrammarError and
\* returns nothing.  Stated for the grammars without empty productions.
C8_MalformedGrammarFails ==
    (/\ Malformed(original_grammar)
     /\ NoEmptyProduction(original_grammar)
     /\ pc \in {"converted", "raised"})
    => (pc = "raised" /\ err = "MalformedGrammarError")

\* C9: two conversions of the same input grammar return isomorphic
\* grammars, the second made by a new instance or by the same instance.
\* Stated for the well-formed input grammars that use none of the
\* converter's names.
C9_RepeatedRunsIsomorphic ==
    (/\ pc = "converted"
     /\ WellFormedInput(original_grammar)
     /\ NoReservedName(original_grammar))
    => /\ \A ord \in ConvertOrders(original_grammar) :
             Isomorphic(results[1], ConvertedGrammar(original_grammar, ord))
       /\ \A r \in 2..Len(results) : Isomorphic(results[1], results[r])

\* C10: an identifier the converter introduces differs from the
\* non-terminals of the input grammar and from the identifiers introduced
\* before it in the run.
C10_FreshNamesUnique ==
    \A i \in 1..Len(introduced) :
        /\ introduced[i] \notin KeySet(original_grammar.rules)
        /\ \A j \in 1..(i - 1) : introduced[j] # introduced[i]

\* the span length of the cell c = (i, j) of the table
SpanLength(c) == c[2] + 1

\* C11: parse fills the table bottom-up by span length.  At every step of
\* the loops: the cells of length 1 have all been computed before a longer
\* one is; the cells read for the cell (i, L) cover spans shorter than L
\* inside [i, i + L); the step modifies no cell but its own, and no cell
\* shorter than one computed before.
C11_BottomUpFill ==
    \A b \in 1..Len(fill_log) :
        LET e == fill_log[b]
            i == e.cell[1]
            L == SpanLength(e.cell)
        IN /\ L >= 2 => \A x \in 0..(Len(words) - 1) :
                            \E a \in 1..(b - 1) : fill_log[a].cell = <<x, 0>>
           /\ \A r \in e.reads :
                 /\ SpanLength(r) < L
                 /\ i <= r[1]
                 /\ r[1] + SpanLength(r) <= i + L
           /\ e.changed \subseteq {e.cell}
           /\ \A a \in 1..(b - 1) : SpanLength(fill_log[a].cell) <= L

\* C11 witness: a sentence of three words was accepted, each loop has run,
\* and the steps of the longest cell wrote to it
C11_Witness ==
    /\ pc = "parsed"
    /\ parse_result.accepts
    /\ Len(words) = 3
    /\ \E a, b \in 1..Len(fill_log) :
          /\ fill_log[a].cell = <<1, 1>> /\ fill_log[a].changed # {}
          /\ fill_log[b].cell = <<0, 2>> /\ fill_log[b].changed # {}

====
